---------------------------- MODULE Spec2Model ----------------------------
(***************************************************************************)
(* Model of src/src/App.vue (midas-app): the streaming session (one        *)
(* `socket` ref holding a browser WebSocket), the Quote Store (`quotes`,   *)
(* a reactive Map), the message and open handlers, and the pure display    *)
(* helpers formatSymbol / faSymbol / symbolIconString / isBranded.         *)
(*                                                                         *)
(* Strings are TLA+ strings (Len, SubSeq and \o work on them in TLC).      *)
(* The WebSocket object and Vue's render scheduler are platform code; they *)
(* are modelled by the behaviour the WHATWG WebSockets standard and Vue 3  *)
(* give to the calls App.vue makes (send, close, add/removeEventListener,  *)
(* the reactive re-render after quotes.value.set).                         *)
(***************************************************************************)
EXTENDS Integers, Sequences, FiniteSets, TLC

VARIABLES
    quotes,     \* quotes.value: the Map, as its entries in insertion order
    socket,     \* socket.value: undefined, or the WebSocket start() stored
    sockets,    \* every WebSocket start() constructed, in creation order
    dirty,      \* a re-render is scheduled (quotes was mutated this tick)
    view,       \* what the last render pass produced from quotes
    lastOp,     \* name of the last operation / event handled
    again,      \* the last two operations were both stop()
    raised,     \* exception the last operation threw (None if it returned)
    out,        \* frames the last operation put on the wire
    console,    \* values the last operation logged
    lastSeen,   \* history: per symbol, its record in the last trade frame handled
    handled,    \* history: the data array the message listener was just given
    arg,        \* display helpers called directly: the argument ...
    ret         \* ... and the call made with its return value

vars == <<quotes, socket, sockets, dirty, view, lastOp, again,
          raised, out, console, lastSeen, handled, arg, ret>>

session == <<quotes, socket, sockets, dirty, view, lastOp, again,
             raised, out, console, lastSeen, handled>>

-----------------------------------------------------------------------------
(* Bounds of the model *)

MaxSockets == 2      \* start() calls explored
MaxData    == 2      \* records in one trade frame's data array

-----------------------------------------------------------------------------
(* Values *)

undefined == "undefined"   \* a string-valued field that is missing
None      == "none"        \* no exception / no icon / no call
NoSocket  == 0             \* socket.value === undefined (sockets are numbered from 1)

CONNECTING == "CONNECTING"
OPEN       == "OPEN"
CLOSING    == "CLOSING"
CLOSED     == "CLOSED"

Tokens == {"tok"}

\* Symbols a user types into the "Symbol" box / passes to (un)subscribe.
Symbols == {"AAPL", "BINANCE:BTCUSDT"}

\* Quote records the provider pushes (interface RealTimeQuote).
Quote(s, p, v, t) == [c |-> "1", p |-> p, s |-> s, t |-> t, v |-> v]

QuoteRecords ==
    { Quote("AAPL", "150.25", "10", "t1"),
      Quote("AAPL", "151", "20", "t2"),
      Quote("BINANCE:BTCUSDT", "64000.5", "0.1", "t3") }

RECURSIVE SeqsUpTo(_, _)
SeqsUpTo(S, n) ==
    IF n = 0 THEN {<<>>}
    ELSE LET shorter == SeqsUpTo(S, n - 1)
         IN  shorter \cup {Append(q, x) : q \in {r \in shorter : Len(r) = n - 1}, x \in S}

DataLists == SeqsUpTo(QuoteRecords, MaxData)

\* event.data of a MessageEvent, by what JSON.parse makes of it:
\*   Invalid   text that is not JSON (JSON.parse throws SyntaxError)
\*   Falsy     JSON whose value is falsy (null, 0, "", false)
\*   Obj       a JSON object without a data field (type, msg may be undefined)
\*   ObjData   a JSON object with a data array
Invalid == [shape |-> "invalid"]
Falsy   == [shape |-> "falsy"]
Obj(type, msg) == [shape |-> "object", type |-> type, msg |-> msg]
ObjData(type, msg, data) == [shape |-> "object", type |-> type, msg |-> msg, data |-> data]

HasData(f) == "data" \in DOMAIN f

Msgs == {"bad token", undefined}

TradeFrames == {ObjData("trade", undefined, d) : d \in DataLists}

ErrorFrames == {Obj("error", m) : m \in Msgs}
                 \cup {ObjData("error", "bad token", <<Quote("AAPL", "151", "20", "t2")>>)}

OtherFrames == {Obj(ty, undefined) : ty \in {"ping", undefined}}
                 \cup {ObjData(ty, undefined, <<Quote("AAPL", "151", "20", "t2")>>) :
                          ty \in {"ping", undefined}}

Frames == {Invalid, Falsy, Obj("trade", undefined)}
            \cup TradeFrames \cup ErrorFrames \cup OtherFrames

\* Result lists the search endpoint returns (interface Result).
SearchResult == [description |-> "APPLE INC", displaySymbol |-> "AAPL",
                 symbol |-> "AAPL", type |-> "Common Stock"]

\* client.get: the request fails, or its response is without data, with data
\* lacking result, or with data.result
SearchResponses == {[kind |-> "failed"],
                    [kind |-> "nodata"],
                    [kind |-> "noresult"],
                    [kind |-> "result", result |-> <<SearchResult>>]}

-----------------------------------------------------------------------------
(* String helpers *)

CharAt(str, i) == SubSeq(str, i, i)

\* str has the literal lit at position i
At(str, i, lit) ==
    /\ i >= 1
    /\ i + Len(lit) - 1 <= Len(str)
    /\ SubSeq(str, i, i + Len(lit) - 1) = lit

Min(S) == CHOOSE x \in S : \A y \in S : x <= y
Max(S) == CHOOSE x \in S : \A y \in S : x >= y

UpperCase == <<"A","B","C","D","E","F","G","H","I","J","K","L","M",
               "N","O","P","Q","R","S","T","U","V","W","X","Y","Z">>
LowerCase == <<"a","b","c","d","e","f","g","h","i","j","k","l","m",
               "n","o","p","q","r","s","t","u","v","w","x","y","z">>

LowerChar(ch) ==
    IF \E k \in 1..Len(UpperCase) : UpperCase[k] = ch
    THEN LowerCase[CHOOSE k \in 1..Len(UpperCase) : UpperCase[k] = ch]
    ELSE ch

\* String.prototype.toLowerCase
RECURSIVE toLowerCase(_)
toLowerCase(str) ==
    IF Len(str) = 0 THEN ""
    ELSE LowerChar(CharAt(str, 1)) \o toLowerCase(SubSeq(str, 2, Len(str)))

-----------------------------------------------------------------------------
(* Display formatting: pure functions *)

\* Start positions at which /BINANCE:(?<symbol>.+)USDT/ matches: the literal
\* "BINANCE:", at least one character, then "USDT".
MatchStarts(symbol) ==
    {i \in 1..Len(symbol) :
        /\ At(symbol, i, "BINANCE:")
        /\ \E j \in (i + 9)..Len(symbol) : At(symbol, j, "USDT")}

\* symbol.replace(/BINANCE:(?<symbol>.+)USDT/, "$1"): the leftmost match, its
\* group taken greedily (up to the last "USDT"), is replaced by the group;
\* the text before and after the match stays.
formatSymbol(symbol) ==
    IF MatchStarts(symbol) = {} THEN symbol
    ELSE LET i == Min(MatchStarts(symbol))
             j == Max({k \in (i + 9)..Len(symbol) : At(symbol, k, "USDT")})
         IN  SubSeq(symbol, 1, i - 1)
               \o SubSeq(symbol, i + 8, j - 1)
               \o SubSeq(symbol, j + 4, Len(symbol))

\* variant of faSymbol: the formatted symbol is compared as it is, not
\* lowercased
faSymbolCaseSensitive(symbol) ==
    LET key == formatSymbol(symbol)
    IN  IF key = "eth" THEN "ethereum"
        ELSE IF key = "btc" THEN "btc"
        ELSE ""

\* variant of faSymbol: the raw symbol is lowercased, not the formatted one
faSymbolUnformatted(symbol) ==
    LET key == toLowerCase(symbol)
    IN  IF key = "eth" THEN "ethereum"
        ELSE IF key = "btc" THEN "btc"
        ELSE ""

\* Convert symbol to font-awesome icon identifier
faSymbol(symbol) ==
    LET key == toLowerCase(formatSymbol(symbol))
    IN  IF key = "eth" THEN "ethereum"
        ELSE IF key = "btc" THEN "btc"
        ELSE ""

\* Render font-awesome class for a given symbol (faSymbol never throws, so the
\* catch branch is not taken)
symbolIconString(symbol) == "fa-brands fa-" \o faSymbol(symbol)

branded == {"BTC", "ETH"}

isBranded(symbol) == formatSymbol(symbol) \in branded

-----------------------------------------------------------------------------
(* Price rendering: formatter.format(Number(quote.p))                       *)
(* Number() is modelled on plain decimal strings ("151", "150.25", ".5");   *)
(* any other text is taken as NaN. A number is [nan, int, frac]: its        *)
(* integer part and the digits after the point.                             *)

DigitChars == <<"0","1","2","3","4","5","6","7","8","9">>

IsDigit(ch) == \E k \in 1..Len(DigitChars) : DigitChars[k] = ch

DigitVal(ch) == (CHOOSE k \in 1..Len(DigitChars) : DigitChars[k] = ch) - 1

IsDigits(str) == \A i \in 1..Len(str) : IsDigit(CharAt(str, i))

RECURSIVE ParseInt(_)
ParseInt(str) ==
    IF Len(str) = 0 THEN 0
    ELSE ParseInt(SubSeq(str, 1, Len(str) - 1)) * 10 + DigitVal(CharAt(str, Len(str)))

NaN == [nan |-> TRUE, int |-> 0, frac |-> ""]

Number(str) ==
    LET dots == {i \in 1..Len(str) : CharAt(str, i) = "."}
        d    == IF dots = {} THEN Len(str) + 1 ELSE Min(dots)
        ip   == SubSeq(str, 1, d - 1)
        fp   == SubSeq(str, d + 1, Len(str))
    IN  IF Len(str) = 0 THEN [nan |-> FALSE, int |-> 0, frac |-> ""]
        ELSE IF IsDigits(ip) /\ IsDigits(fp) /\ Len(ip) + Len(fp) > 0
        THEN [nan |-> FALSE, int |-> ParseInt(ip), frac |-> fp]
        ELSE NaN

RECURSIVE IntToStr(_)
IntToStr(n) ==
    IF n < 10 THEN DigitChars[n + 1]
    ELSE IntToStr(n \div 10) \o DigitChars[(n % 10) + 1]

Pad(str, width) == SubSeq("000", 1, width - Len(str)) \o str

\* en-US grouping: a comma every three integer digits
RECURSIVE Grouped(_)
Grouped(n) ==
    IF n < 1000 THEN IntToStr(n)
    ELSE Grouped(n \div 1000) \o "," \o Pad(IntToStr(n % 1000), 3)

FracDigit(n, k) == IF Len(n.frac) >= k THEN DigitVal(CharAt(n.frac, k)) ELSE 0

\* Intl.NumberFormat("en-US", {style: "currency", currency: "USD",
\* minimumFractionDigits: 2, maximumFractionDigits: 2}).format(n)
formatter(n) ==
    IF n.nan THEN "$NaN"
    ELSE LET cents == n.int * 100 + FracDigit(n, 1) * 10 + FracDigit(n, 2)
                        + (IF FracDigit(n, 3) >= 5 THEN 1 ELSE 0)
         IN  "$" \o Grouped(cents \div 100) \o "." \o Pad(IntToStr(cents % 100), 2)

-----------------------------------------------------------------------------
(* The Quote Store: a JS Map as its [key, value] entries in insertion order *)

Keys(m) == {m[i].key : i \in 1..Len(m)}

Has(m, k) == k \in Keys(m)

Get(m, k) == m[CHOOSE i \in 1..Len(m) : m[i].key = k].value

\* variant of MapSet: an existing entry is merged field by field, only the
\* price taken from the new quote
MapSetMerge(m, k, v) ==
    IF Has(m, k)
    THEN [i \in 1..Len(m) |-> IF m[i].key = k THEN [m[i] EXCEPT !.value.p = v.p] ELSE m[i]]
    ELSE Append(m, [key |-> k, value |-> v])

\* variant of MapSet: an existing entry is kept, the new quote dropped
MapSetKeepFirst(m, k, v) ==
    IF Has(m, k) THEN m ELSE Append(m, [key |-> k, value |-> v])

\* variant of MapSet: the map is replaced by one holding the new entry only
MapSetFresh(m, k, v) == <<[key |-> k, value |-> v]>>

\* variant of MapSet: the entry is stored under the formatted symbol
MapSetFormatted(m, k, v) ==
    IF Has(m, formatSymbol(k))
    THEN [i \in 1..Len(m) |-> IF m[i].key = formatSymbol(k)
                                THEN [key |-> formatSymbol(k), value |-> v]
                                ELSE m[i]]
    ELSE Append(m, [key |-> formatSymbol(k), value |-> v])

\* Map.prototype.set: an existing key keeps its position and gets the new
\* value; a new key is appended
MapSet(m, k, v) ==
    IF Has(m, k)
    THEN [i \in 1..Len(m) |-> IF m[i].key = k THEN [key |-> k, value |-> v] ELSE m[i]]
    ELSE Append(m, [key |-> k, value |-> v])

\* variant of SetAll: the loop stops after the first record
SetAllFirstOnly(m, data) ==
    IF Len(data) = 0 THEN m ELSE MapSet(m, Head(data).s, Head(data))

\* trade.data.forEach((quote) => quotes.value.set(quote.s, quote))
RECURSIVE SetAll(_, _)
SetAll(m, data) ==
    IF Len(data) = 0 THEN m
    ELSE SetAll(MapSet(m, Head(data).s, Head(data)), Tail(data))

\* The template's render pass over quotes: one subscription-list item and one
\* table per entry (key, formatted symbol, icon if branded, price, volume)
Row(s, quote) ==
    [key    |-> s,
     label  |-> formatSymbol(quote.s),
     icon   |-> IF isBranded(quote.s) THEN symbolIconString(quote.s) ELSE None,
     price  |-> formatter(Number(quote.p)),
     volume |-> quote.v]

template(m) == [i \in 1..Len(m) |-> Row(m[i].key, m[i].value)]

-----------------------------------------------------------------------------
(* The WebSocket object (platform behaviour of the calls App.vue makes)     *)

\* new WebSocket(url): CONNECTING, no listeners yet
WebSocket(url) ==
    [url |-> url, readyState |-> CONNECTING, onopen |-> FALSE, onmessage |-> FALSE]

\* What a call did besides changing state: the exception it threw and the
\* frames it transmitted
Quiet == [raised |-> None, out |-> <<>>]

\* WebSocket.send(data): throws InvalidStateError while CONNECTING, transmits
\* when OPEN, silently discards the data when CLOSING or CLOSED
send(i, data) ==
    IF sockets[i].readyState = CONNECTING
    THEN [raised |-> "InvalidStateError", out |-> <<>>]
    ELSE IF sockets[i].readyState = OPEN
    THEN [raised |-> None, out |-> <<[sock |-> i, data |-> data]>>]
    ELSE Quiet

\* WebSocket.close(): nothing when already CLOSING or CLOSED, otherwise the
\* closing handshake starts (a connection still being made is abandoned)
close(ws) ==
    IF ws.readyState \in {CLOSING, CLOSED} THEN ws
    ELSE [ws EXCEPT !.readyState = CLOSING]

\* JSON.stringify({ type, symbol }) for symbols that need no escaping
stringify(type, symbol) ==
    "{\"type\":\"" \o type \o "\",\"symbol\":\"" \o symbol \o "\"}"

-----------------------------------------------------------------------------
(* The streaming session *)

\* Subscribe symbol to real time quotes
subscribe(symbol) ==
    IF socket # NoSocket
    THEN send(socket, stringify("subscribe", symbol))
    ELSE Quiet

\* Unsubscribe symbol from real time quotes
unsubscribe(symbol) ==
    IF socket # NoSocket
    THEN send(socket, stringify("unsubscribe", symbol))
    ELSE Quiet

addSymbol(symbol) == subscribe(symbol)

PresetSymbols ==
    <<"AAPL", "GME", "TSLA", "SHOP", "BINANCE:BTCUSDT", "BINANCE:ETHUSDT",
      "BINANCE:ADAUSDT", "BINANCE:SOLUSDT">>

\* subscribe() for each symbol in turn, after `sent` went out; an exception
\* ends the run
RECURSIVE SubscribeEach(_, _)
SubscribeEach(symbols, sent) ==
    IF Len(symbols) = 0 THEN [raised |-> None, out |-> sent]
    ELSE IF subscribe(Head(symbols)).raised # None
    THEN [raised |-> subscribe(Head(symbols)).raised, out |-> sent]
    ELSE SubscribeEach(Tail(symbols), sent \o subscribe(Head(symbols)).out)

\* The "open" listener
subscribeHandler == SubscribeEach(PresetSymbols, <<>>)

\* variant of the listener: case "error" lacks its break and runs on into
\* case "trade"
handlerFallsThrough(event) ==
    IF event.shape = "invalid"
    THEN [raised |-> "SyntaxError", quotes |-> quotes, console |-> <<>>]
    ELSE IF event.shape = "falsy"
    THEN [raised |-> None, quotes |-> quotes, console |-> <<>>]
    ELSE IF event.type \in {"error", "trade"}
    THEN IF HasData(event)
         THEN [raised  |-> None, quotes |-> SetAll(quotes, event.data),
               console |-> IF event.type = "error" THEN <<event>> ELSE <<>>]
         ELSE [raised  |-> "TypeError", quotes |-> quotes,
               console |-> IF event.type = "error" THEN <<event>> ELSE <<>>]
    ELSE [raised |-> None, quotes |-> quotes, console |-> <<>>]

\* variant of the listener: the data of a frame is stored whatever its type
handlerAnyType(event) ==
    IF event.shape = "invalid"
    THEN [raised |-> "SyntaxError", quotes |-> quotes, console |-> <<>>]
    ELSE IF event.shape = "falsy"
    THEN [raised |-> None, quotes |-> quotes, console |-> <<>>]
    ELSE IF HasData(event)
    THEN [raised |-> None, quotes |-> SetAll(quotes, event.data), console |-> <<>>]
    ELSE IF event.type = "trade"
    THEN [raised |-> "TypeError", quotes |-> quotes, console |-> <<>>]
    ELSE [raised |-> None, quotes |-> quotes, console |-> <<>>]

\* variant of the listener: a failure of JSON.parse or of trade.data.forEach
\* is caught inside the listener
handlerCatches(event) ==
    IF event.shape \in {"invalid", "falsy"}
    THEN [raised |-> None, quotes |-> quotes, console |-> <<>>]
    ELSE IF event.type = "error"
    THEN [raised |-> None, quotes |-> quotes, console |-> <<event>>]
    ELSE IF event.type = "trade" /\ HasData(event)
    THEN [raised |-> None, quotes |-> SetAll(quotes, event.data), console |-> <<>>]
    ELSE [raised |-> None, quotes |-> quotes, console |-> <<>>]

\* variant of the listener: a frame of an unknown type is rejected with an
\* exception
handlerRejectsUnknown(event) ==
    IF event.shape = "invalid"
    THEN [raised |-> "SyntaxError", quotes |-> quotes, console |-> <<>>]
    ELSE IF event.shape = "falsy"
    THEN [raised |-> None, quotes |-> quotes, console |-> <<>>]
    ELSE IF event.type = "error"
    THEN [raised |-> None, quotes |-> quotes, console |-> <<event>>]
    ELSE IF event.type = "trade"
    THEN IF HasData(event)
         THEN [raised |-> None, quotes |-> SetAll(quotes, event.data), console |-> <<>>]
         ELSE [raised |-> "TypeError", quotes |-> quotes, console |-> <<>>]
    ELSE [raised |-> "Error", quotes |-> quotes, console |-> <<>>]

\* The "message" listener: what it throws, what quotes.value is afterwards,
\* what it logs
realTimeQuoteResponseHandler(event) ==
    IF event.shape = "invalid"
    THEN [raised |-> "SyntaxError", quotes |-> quotes, console |-> <<>>]
    ELSE IF event.shape = "falsy"
    THEN [raised |-> None, quotes |-> quotes, console |-> <<>>]
    ELSE IF event.type = "error"
    THEN [raised |-> None, quotes |-> quotes, console |-> <<event>>]
    ELSE IF event.type = "trade"
    THEN IF HasData(event)
         THEN [raised |-> None, quotes |-> SetAll(quotes, event.data), console |-> <<>>]
         ELSE [raised |-> "TypeError", quotes |-> quotes, console |-> <<>>]
    ELSE [raised |-> None, quotes |-> quotes, console |-> <<>>]

\* start(token): a new WebSocket replaces socket.value and gets both listeners
start(token) ==
    [socket  |-> Len(sockets) + 1,
     sockets |-> Append(sockets,
                        [WebSocket("wss://ws.finnhub.io?token=" \o token)
                           EXCEPT !.onopen = TRUE, !.onmessage = TRUE])]

\* variant of stop: without the test socket.value !== undefined
stopUnguarded ==
    IF socket # NoSocket
    THEN [raised  |-> None,
          sockets |-> [sockets EXCEPT ![socket] =
                         close([@ EXCEPT !.onmessage = FALSE, !.onopen = FALSE])]]
    ELSE [raised |-> "TypeError", sockets |-> sockets]

\* stop(): what it throws and the sockets after it: both listeners removed
\* from socket.value, then close(); socket.value itself is left as it is
stop ==
    IF socket # NoSocket
    THEN [raised  |-> None,
          sockets |-> [sockets EXCEPT ![socket] =
                         close([@ EXCEPT !.onmessage = FALSE, !.onopen = FALSE])]]
    ELSE [raised |-> None, sockets |-> sockets]

\* search(query, token): response.data.result when the response has data
search(response) ==
    IF response.kind = "result" THEN [defined |-> TRUE, result |-> response.result]
    ELSE [defined |-> FALSE, result |-> <<>>]

\* performSearch after its await: results.forEach(console.log)
performSearch(response) ==
    IF response.kind = "failed"
    THEN [raised |-> "HttpError", console |-> <<>>]
    ELSE IF search(response).defined
    THEN [raised |-> None, console |-> search(response).result]
    ELSE [raised |-> "TypeError", console |-> <<>>]

\* History: the record of each symbol in data, last occurrence winning
LastIn(data, s) ==
    data[Max({i \in 1..Len(data) : data[i].s = s})]

SymbolsOf(data) == {data[i].s : i \in 1..Len(data)}

\* the data array of a trade frame (<<>> for any other frame)
Data(event) ==
    IF event.shape = "object" /\ event.type = "trade" /\ HasData(event)
    THEN event.data
    ELSE <<>>

Seen(event) ==
    IF event.shape = "object" /\ event.type = "trade" /\ HasData(event)
    THEN [s \in DOMAIN lastSeen \cup SymbolsOf(event.data) |->
             IF s \in SymbolsOf(event.data) THEN LastIn(event.data, s) ELSE lastSeen[s]]
    ELSE lastSeen

-----------------------------------------------------------------------------
(* Steps. The event loop runs one handler at a time; a re-render scheduled  *)
(* by a mutation of quotes runs before the next event is handled.           *)

SockIds == 1..Len(sockets)

Did(op, exc, frames, logged) ==
    /\ lastOp' = op
    /\ raised' = exc
    /\ out' = frames
    /\ console' = logged
    /\ again' = (op = "stop" /\ lastOp = "stop")

Init ==
    /\ quotes = <<>>
    /\ socket = NoSocket
    /\ sockets = <<>>
    /\ dirty = FALSE
    /\ view = <<>>
    /\ lastOp = "mount"
    /\ again = FALSE
    /\ raised = None
    /\ out = <<>>
    /\ console = <<>>
    /\ lastSeen = [s \in {} |-> s]
    /\ handled = <<>>
    /\ arg = ""
    /\ ret = [fn |-> None]

\* <button @click="start(token)">
Start(token) ==
    /\ ~dirty
    /\ Len(sockets) < MaxSockets
    /\ socket' = start(token).socket
    /\ sockets' = start(token).sockets
    /\ Did("start", None, <<>>, <<>>)
    /\ UNCHANGED <<quotes, dirty, view, lastSeen, handled, arg, ret>>

\* <button @click="stop">
Stop ==
    /\ ~dirty
    /\ sockets' = stop.sockets
    /\ Did("stop", stop.raised, <<>>, <<>>)
    /\ UNCHANGED <<quotes, socket, dirty, view, lastSeen, handled, arg, ret>>

Unsubscribe(symbol) ==
    /\ ~dirty
    /\ Did("unsubscribe", unsubscribe(symbol).raised, unsubscribe(symbol).out, <<>>)
    /\ UNCHANGED <<quotes, socket, sockets, dirty, view, lastSeen, handled, arg, ret>>

\* <form @submit.prevent="addSymbol(symbol)">
AddSymbol(symbol) ==
    /\ ~dirty
    /\ Did("addSymbol", addSymbol(symbol).raised, addSymbol(symbol).out, <<>>)
    /\ UNCHANGED <<quotes, socket, sockets, dirty, view, lastSeen, handled, arg, ret>>

\* <form @submit.prevent="performSearch(query, token)">: the request and the
\* resumption after its await, which touch no state of the session
PerformSearch(response) ==
    /\ ~dirty
    /\ Did("performSearch", performSearch(response).raised, <<>>,
           performSearch(response).console)
    /\ UNCHANGED <<quotes, socket, sockets, dirty, view, lastSeen, handled, arg, ret>>

\* the connection of socket i is established: it becomes OPEN and "open" is
\* dispatched, so the listener runs in the state with socket i OPEN
Open(i) ==
    /\ ~dirty
    /\ sockets[i].readyState = CONNECTING
    /\ sockets' = [sockets EXCEPT ![i].readyState = OPEN]
    /\ socket' = socket
    /\ IF sockets[i].onopen
       THEN Did("open", subscribeHandler'.raised, subscribeHandler'.out, <<>>)
       ELSE Did("open", None, <<>>, <<>>)
    /\ UNCHANGED <<quotes, dirty, view, lastSeen, handled, arg, ret>>

\* a frame arrives on socket i: "message" is dispatched to its listener
Message(i, event) ==
    /\ ~dirty
    /\ sockets[i].readyState = OPEN
    /\ sockets[i].onmessage
    /\ quotes' = realTimeQuoteResponseHandler(event).quotes
    /\ dirty' = (Len(Data(event)) > 0)
    /\ lastSeen' = Seen(event)
    /\ handled' = Data(event)
    /\ Did("message", realTimeQuoteResponseHandler(event).raised, <<>>,
           realTimeQuoteResponseHandler(event).console)
    /\ UNCHANGED <<socket, sockets, view, arg, ret>>

\* the closing handshake stop() began on socket i completes
CloseDone(i) ==
    /\ ~dirty
    /\ sockets[i].readyState = CLOSING
    /\ sockets' = [sockets EXCEPT ![i].readyState = CLOSED]
    /\ Did("close", None, <<>>, <<>>)
    /\ UNCHANGED <<quotes, socket, dirty, view, lastSeen, handled, arg, ret>>

\* the provider closes socket i, or the connection fails
RemoteClose(i) ==
    /\ ~dirty
    /\ sockets[i].readyState \in {CONNECTING, OPEN}
    /\ sockets' = [sockets EXCEPT ![i].readyState = CLOSED]
    /\ Did("remoteClose", None, <<>>, <<>>)
    /\ UNCHANGED <<quotes, socket, dirty, view, lastSeen, handled, arg, ret>>

\* the scheduled render pass
Render ==
    /\ dirty
    /\ view' = template(quotes)
    /\ dirty' = FALSE
    /\ handled' = <<>>
    /\ Did("render", None, <<>>, <<>>)
    /\ UNCHANGED <<quotes, socket, sockets, lastSeen, arg, ret>>

Next ==
    \/ \E token \in Tokens : Start(token)
    \/ Stop
    \/ \E symbol \in Symbols : Unsubscribe(symbol)
    \/ \E symbol \in Symbols : AddSymbol(symbol)
    \/ \E response \in SearchResponses : PerformSearch(response)
    \/ \E i \in SockIds : Open(i)
    \/ \E i \in SockIds, event \in Frames : Message(i, event)
    \/ \E i \in SockIds : CloseDone(i)
    \/ \E i \in SockIds : RemoteClose(i)
    \/ Render

Spec == Init /\ [][Next]_vars

-----------------------------------------------------------------------------
(* The display helpers called on their own: a symbol string is drawn, then  *)
(* the helpers are applied to it.                                           *)

Prefixes == {"", "BINANCE:", "COINBASE:", "XBINANCE:", "binance:"}
Inners   == {"", "BTC", "ETH", "eth", "Btc", "ADA", "AAPL", "USDT"}
Suffixes == {"", "USDT", "usdt", "USD"}
Tails    == {"", "X", "USDT"}

SymbolStrings ==
    {pre \o mid \o suf \o tail :
        pre \in Prefixes, mid \in Inners, suf \in Suffixes, tail \in Tails}

InitFormat ==
    /\ quotes = <<>>
    /\ socket = NoSocket
    /\ sockets = <<>>
    /\ dirty = FALSE
    /\ view = <<>>
    /\ lastOp = "mount"
    /\ again = FALSE
    /\ raised = None
    /\ out = <<>>
    /\ console = <<>>
    /\ lastSeen = [s \in {} |-> s]
    /\ handled = <<>>
    /\ arg \in SymbolStrings
    /\ ret = [fn |-> None]

CallFormatSymbol ==
    /\ ret' = [fn |-> "formatSymbol", val |-> formatSymbol(arg)]
    /\ UNCHANGED <<session, arg>>

CallFaSymbol ==
    /\ ret' = [fn |-> "faSymbol", val |-> faSymbol(arg)]
    /\ UNCHANGED <<session, arg>>

CallSymbolIconString ==
    /\ ret' = [fn |-> "symbolIconString", val |-> symbolIconString(arg)]
    /\ UNCHANGED <<session, arg>>

CallIsBranded ==
    /\ ret' = [fn |-> "isBranded", val |-> isBranded(arg)]
    /\ UNCHANGED <<session, arg>>

NextFormat ==
    \/ CallFormatSymbol
    \/ CallFaSymbol
    \/ CallSymbolIconString
    \/ CallIsBranded

SpecFormat == InitFormat /\ [][NextFormat]_vars

-----------------------------------------------------------------------------
(* Properties *)

\* socket.value refers to a WebSocket that is OPEN
Connected == socket # NoSocket /\ sockets[socket].readyState = OPEN

\* a connection start() made that is connecting or open and still has its
\* message listener
Live(i) == sockets[i].readyState \in {CONNECTING, OPEN} /\ sockets[i].onmessage

\* the text of the frame {type, symbol}
Frame(type, symbol) == "{\"type\":\"" \o type \o "\",\"symbol\":\"" \o symbol \o "\"}"

\* C1: at most one connection opened by start is live (connecting or open,
\* message listener registered) at any time, also when start is called while
\* a connection from an earlier start still exists.
AtMostOneLiveConnection ==
    Cardinality({i \in SockIds : Live(i)}) <= 1

\* C2: subscribe(symbol) sends exactly the one frame {type: "subscribe",
\* symbol} when the session is connected; in every state where it is not
\* connected it sends nothing and raises no error. (subscribe is called by
\* addSymbol with the symbol typed, and by the open listener.)
SubscribeSilentUnlessConnected ==
    [][\A symbol \in Symbols :
          AddSymbol(symbol) =>
              /\ raised' = None
              /\ out' = IF Connected
                        THEN <<[sock |-> socket, data |-> Frame("subscribe", symbol)]>>
                        ELSE <<>>]_vars

\* C3: when a connection opened by start reaches the open state, exactly the
\* eight preset subscribe frames are sent, in order, on that same connection,
\* and no frame is ever sent on a connection that is not open.
OpenSendsPresetsOnSameConnection ==
    [][/\ \A i \in SockIds :
            (Open(i) /\ sockets[i].onopen) =>
                out' = << [sock |-> i, data |-> Frame("subscribe", "AAPL")],
                          [sock |-> i, data |-> Frame("subscribe", "GME")],
                          [sock |-> i, data |-> Frame("subscribe", "TSLA")],
                          [sock |-> i, data |-> Frame("subscribe", "SHOP")],
                          [sock |-> i, data |-> Frame("subscribe", "BINANCE:BTCUSDT")],
                          [sock |-> i, data |-> Frame("subscribe", "BINANCE:ETHUSDT")],
                          [sock |-> i, data |-> Frame("subscribe", "BINANCE:ADAUSDT")],
                          [sock |-> i, data |-> Frame("subscribe", "BINANCE:SOLUSDT")] >>
       /\ \A k \in 1..Len(out') : sockets'[out'[k].sock].readyState = OPEN]_vars

\* C4: stop() never raises and sends nothing; called when no connection exists
\* it changes no state, and called twice in a row the second call changes
\* nothing either.
StopNeverRaises ==
    [][Stop =>
          /\ raised' = None
          /\ out' = <<>>
          /\ (socket = NoSocket \/ lastOp = "stop")
                => UNCHANGED <<quotes, socket, sockets, dirty, view, lastSeen>>]_vars

\* C4 witness: a second stop() in a row has returned, the first having
\* closed a connection start() had made
StoppedTwice ==
    /\ lastOp = "stop"
    /\ again
    /\ raised = None
    /\ socket # NoSocket
    /\ sockets[socket].readyState = CLOSING
    /\ ~sockets[socket].onmessage


Entries(m, k) == {n \in 1..Len(m) : m[n].key = k}

\* C5: handling a trade frame with record list D leaves, for every symbol s
\* occurring in D, exactly one entry under key s, equal to the last record of
\* D with that symbol (the whole record), and leaves every entry whose key
\* does not occur in D unchanged.
TradeFrameUpserts ==
    [][lastOp' = "message" =>
          /\ \A s \in SymbolsOf(handled') :
                /\ Cardinality(Entries(quotes', s)) = 1
                /\ Get(quotes', s) = LastIn(handled', s)
          /\ \A n \in 1..Len(quotes) :
                quotes[n].key \notin SymbolsOf(handled') =>
                    /\ Cardinality(Entries(quotes', quotes[n].key)) = 1
                    /\ Get(quotes', quotes[n].key) = quotes[n].value
          /\ Keys(quotes') = Keys(quotes) \cup SymbolsOf(handled')]_vars

\* C5 witness: a trade frame carrying two AAPL records has been handled, the
\* second one is the entry, and the BTC entry shown by the last render is
\* still in the store
TradeReplacedQuote ==
    /\ lastOp = "message"
    /\ handled = <<Quote("AAPL", "150.25", "10", "t1"), Quote("AAPL", "151", "20", "t2")>>
    /\ Has(quotes, "AAPL")
    /\ Get(quotes, "AAPL") = Quote("AAPL", "151", "20", "t2")
    /\ Has(quotes, "BINANCE:BTCUSDT")
    /\ \E n \in 1..Len(view) : view[n].key = "BINANCE:BTCUSDT" /\ view[n].label = "BTC"

\* C6: handling an error frame leaves the Quote Store unchanged, does not
\* throw, and leaves the connection open with its handlers registered.
ErrorFrameHarmless ==
    [][\A i \in SockIds, event \in ErrorFrames :
          Message(i, event) =>
              /\ quotes' = quotes
              /\ raised' = None
              /\ socket' = socket
              /\ sockets'[i] = sockets[i]
              /\ sockets'[i].readyState = OPEN
              /\ sockets'[i].onmessage
              /\ sockets'[i].onopen]_vars

\* C6 witness: an error frame has been handled (and logged) with quotes in
\* the store and the session connected
ErrorFrameHandled ==
    /\ lastOp = "message"
    /\ console # <<>>
    /\ raised = None
    /\ quotes # <<>>
    /\ Connected

\* C7: the Quote Store is changed only by the message handler processing a
\* trade frame; every other step, stop() included, leaves it unchanged.
QuotesChangeOnlyOnTrade ==
    [][quotes' # quotes => (lastOp' = "message" /\ handled' # <<>>)]_vars

\* C7 witness: stop() has returned with received quotes still in the store
StoppedWithQuotes ==
    /\ lastOp = "stop"
    /\ Len(quotes) = 2
    /\ sockets[socket].readyState = CLOSING

\* C8: in every reachable state the entry for each symbol is its record from
\* the most recently handled trade frame that contained it.
LatestQuoteWins ==
    /\ Keys(quotes) = DOMAIN lastSeen
    /\ \A s \in DOMAIN lastSeen : Get(quotes, s) = lastSeen[s]

\* C8 witness: the AAPL record t1 arrived after the record t2 that the last
\* render showed (volume 20), and t1 is the entry
LaterFrameWon ==
    /\ Has(quotes, "AAPL")
    /\ Get(quotes, "AAPL") = Quote("AAPL", "150.25", "10", "t1")
    /\ \E n \in 1..Len(view) : view[n].key = "AAPL" /\ view[n].volume = "20"

\* C9: unsubscribe(symbol) sends exactly the one frame {type: "unsubscribe",
\* symbol} when connected, sends nothing and raises no error when not
\* connected, and leaves the Quote Store and the connection unchanged.
UnsubscribeMirrorsSubscribe ==
    [][\A symbol \in Symbols :
          Unsubscribe(symbol) =>
              /\ raised' = None
              /\ out' = IF Connected
                        THEN <<[sock |-> socket, data |-> Frame("unsubscribe", symbol)]>>
                        ELSE <<>>
              /\ UNCHANGED <<quotes, socket, sockets>>]_vars

\* the shape PREFIX:XXXUSDT: a non-empty venue prefix up to the first ':',
\* a non-empty inner part, and a trailing "USDT"
FirstColon(s) == Min({i \in 1..Len(s) : CharAt(s, i) = ":"})

VenueShape(s) ==
    /\ \E i \in 1..Len(s) : CharAt(s, i) = ":"
    /\ FirstColon(s) > 1
    /\ At(s, Len(s) - 3, "USDT")
    /\ Len(s) - 4 > FirstColon(s)

\* C10: formatSymbol returns the inner part XXX when the symbol has the shape
\* PREFIX:XXXUSDT and the symbol unchanged in every other case.
FormatSymbolStripsVenueAndSuffix ==
    ret.fn = "formatSymbol" =>
        ret.val = IF VenueShape(arg)
                  THEN SubSeq(arg, FirstColon(arg) + 1, Len(arg) - 4)
                  ELSE arg


\* every spelling of "eth" and of "btc" in upper and lower case letters
EthVariants == {a \o b \o c : a \in {"e", "E"}, b \in {"t", "T"}, c \in {"h", "H"}}
BtcVariants == {a \o b \o c : a \in {"b", "B"}, b \in {"t", "T"}, c \in {"c", "C"}}

\* C11: isBranded(symbol) is true if and only if the formatted symbol, after
\* uppercasing, is exactly "BTC" or "ETH" (so a formatted "eth" is branded).
IsBrandedIgnoresCase ==
    ret.fn = "isBranded" =>
        (ret.val <=> formatSymbol(arg) \in EthVariants \cup BtcVariants)

\* C12: faSymbol returns "ethereum" when the formatted symbol is any case
\* variant of "eth", "btc" when it is any case variant of "btc", and the empty
\* string for every other symbol.
FaSymbolByCaseVariant ==
    ret.fn = "faSymbol" =>
        ret.val = IF formatSymbol(arg) \in EthVariants THEN "ethereum"
                  ELSE IF formatSymbol(arg) \in BtcVariants THEN "btc"
                  ELSE ""

\* C12 witness: faSymbol has been applied to a venue-qualified symbol whose
\* inner part is "Btc" in mixed case
FaSymbolOfMixedCase ==
    /\ ret.fn = "faSymbol"
    /\ arg = "BINANCE:BtcUSDT"
    /\ ret.val = "btc"


\* C19: whenever isBranded(symbol) is true, faSymbol(symbol) is "btc" or
\* "ethereum" and symbolIconString(symbol) is "fa-brands fa-btc" or
\* "fa-brands fa-ethereum", never the bare prefix "fa-brands fa-".
BrandedHasIcon ==
    isBranded(arg) =>
        /\ ret.fn = "faSymbol" => ret.val \in {"btc", "ethereum"}
        /\ ret.fn = "symbolIconString" =>
               ret.val \in {"fa-brands fa-btc", "fa-brands fa-ethereum"}

\* C19 witness: the icon class of a branded venue-qualified symbol has been
\* computed
BrandedIconComputed ==
    /\ isBranded(arg)
    /\ arg = "BINANCE:ETHUSDT"
    /\ ret.fn = "symbolIconString"
    /\ ret.val = "fa-brands fa-ethereum"


\* stop() has been called and start() has not been called since: start()
\* installs both listeners on the socket it stores, stop() removes them
Stopped == socket # NoSocket /\ ~sockets[socket].onmessage

\* C13: after stop() has returned no frame is handled any more: the quotes
\* stay unchanged whatever frames arrive on any connection start() opened,
\* until start() is called again, also when start() was called twice before
\* the stop().
NoFrameHandledAfterStop ==
    [][Stopped => (lastOp' # "message" /\ quotes' = quotes)]_vars


\* frames that are not valid JSON or lack the field their type expects
NotJson         == Invalid
TradeWithoutData == Obj("trade", undefined)
ErrorWithoutMsg == Obj("error", undefined)

\* C14 (as stated): a frame that is not valid JSON, a trade frame without a
\* data array and an error frame without msg each make the message handler
\* fail with an unhandled failure.
MalformedFrameRaises ==
    [][\A i \in SockIds, event \in {NotJson, TradeWithoutData, ErrorWithoutMsg} :
          Message(i, event) => raised' # None]_vars

\* C14: a frame that is not valid JSON, or a trade frame without a data array,
\* makes the message handler fail with an unhandled failure and leaves the
\* quotes as they were; an error frame without msg does not fail, it is logged
\* like every other error frame.
MalformedFrameRaisesUnlessError ==
    [][/\ \A i \in SockIds, event \in {NotJson, TradeWithoutData} :
             Message(i, event) => (raised' # None /\ quotes' = quotes)
       /\ \A i \in SockIds :
             Message(i, ErrorWithoutMsg) =>
                 (raised' = None /\ console' = <<ErrorWithoutMsg>>)]_vars

\* C14 witness: with two quotes stored, the handler has failed on a trade
\* frame without data
HandlerFailedOnTradeWithoutData ==
    /\ lastOp = "message"
    /\ raised = "TypeError"
    /\ Len(quotes) = 2


\* C15: a render pass never observes the quotes with only some of the records
\* of one trade frame applied: the view is left alone while the frame is
\* handled, and the render pass that follows shows, for every symbol of the
\* frame, the row of the frame's last record for it.
RenderSeesWholeFrame ==
    [][/\ lastOp' = "message" => view' = view
       /\ lastOp' = "render" =>
             /\ view' = template(quotes)
             /\ \A s \in SymbolsOf(handled) :
                   \E n \in 1..Len(view') :
                       view'[n] = Row(s, LastIn(handled, s))]_vars

\* C15 witness: a frame with records of two symbols has been applied in full
\* while the view, not yet rendered again, still shows no row
WholeFrameBeforeRender ==
    /\ dirty
    /\ view = <<>>
    /\ Len(handled) = 2
    /\ Cardinality(SymbolsOf(handled)) = 2
    /\ Keys(quotes) = SymbolsOf(handled)

\* C16: the key set of quotes only grows, across start, stop, subscribe,
\* unsubscribe and received frames: no step removes a key.
KeysOnlyGrow == [][Keys(quotes) \subseteq Keys(quotes')]_vars

\* C16 witness: both keys are still stored after a stop and a second start
KeysKeptAcrossRestart ==
    /\ lastOp = "start"
    /\ Len(sockets) = 2
    /\ sockets[1].readyState \in {CLOSING, CLOSED}
    /\ Keys(quotes) = {"AAPL", "BINANCE:BTCUSDT"}

\* C17: a frame whose type is neither "trade" nor "error", a frame without a
\* type included, is ignored: it changes neither the quotes nor the
\* connection, sends no frame, raises no error and logs nothing, and the
\* connection goes on delivering frames.
UnknownFrameIgnored ==
    [][\A i \in SockIds, event \in OtherFrames :
          Message(i, event) =>
              /\ raised' = None
              /\ out' = <<>>
              /\ console' = <<>>
              /\ UNCHANGED <<quotes, socket, sockets, view, dirty>>
              /\ sockets'[i].readyState = OPEN
              /\ sockets'[i].onmessage]_vars

\* C17 witness: with a quote stored, a frame has been handled that raised
\* nothing, logged nothing and applied no record
FrameWithoutEffect ==
    /\ lastOp = "message"
    /\ raised = None
    /\ console = <<>>
    /\ handled = <<>>
    /\ ~dirty
    /\ Len(quotes) = 1

\* C18: every entry of quotes is stored under the symbol field s of its own
\* record, so the key listed for a subscription and the symbol formatted in
\* its quote table agree.
KeyIsOwnSymbol ==
    /\ \A n \in 1..Len(quotes) : quotes[n].key = quotes[n].value.s
    /\ \A n \in 1..Len(view) : view[n].label = formatSymbol(view[n].key)

\* C18 witness: a venue-qualified symbol is stored and rendered
VenueSymbolRendered ==
    /\ ~dirty
    /\ \E n \in 1..Len(view) :
          view[n].key = "BINANCE:BTCUSDT" /\ view[n].label = "BTC"
    /\ \E n \in 1..Len(quotes) : quotes[n].key = "BINANCE:BTCUSDT"

=============================================================================
